---- MODULE Spec2Model ----
(***************************************************************************)
(* Model of src/interpreter_ex1.py: a lexer and a one-shot parser and      *)
(* evaluator for expressions INTEGER (+|-|*|/) INTEGER.                     *)
(*                                                                         *)
(* A Python string is a sequence of one-character strings.  The character  *)
(* written "^2" stands for SUPERSCRIPT TWO (U+00B2): str.isdigit() accepts *)
(* it and int() rejects it.  Python's None is the string "None"; an        *)
(* attribute not yet assigned is "Unset".                                   *)
(*                                                                         *)
(* One action is one step of the program: one iteration of a loop, or the  *)
(* straight-line code between two loops.  Every step is an operator from   *)
(* the interpreter object (a record) to the interpreter object, and the    *)
(* actions apply these operators to the variables.                          *)
(***************************************************************************)
EXTENDS Integers, Sequences, FiniteSets, TLC

VARIABLES
    code,           \* self.code
    pos,            \* self.pos
    current_char,   \* self.current_char
    current_token,  \* self.current_token
    pc,             \* the place the evaluation has reached
    caller,         \* who called _get_next_token: "expr", "_eat", or "caller" for any other caller
    stage,          \* how many _eat calls of expr have returned
    number,         \* _integer's local variable
    left,           \* expr's local variable
    op,             \* expr's local variable
    right,          \* expr's local variable
    outcome,        \* what the evaluation returned or raised
    tokens,         \* the tokens _get_next_token has returned so far
    second,         \* a second Interpreter object, evaluated beside the first
    host,           \* the place the __main__ loop has reached ("off": no loop)
    printed         \* what the __main__ loop printed in this iteration

vars == <<code, pos, current_char, current_token, pc, caller, stage, number,
          left, op, right, outcome, tokens, second, host, printed>>

\* Longest input string.
MaxLen == 4

\* Most calls of _get_next_token made by a caller that keeps asking.
MaxCalls == 6

None == "None"

Unset == "Unset"

Spaces == {" "}

DecimalDigits == {"0", "1", "2"}

OtherDigits == {"^2"}

Operations == {"+", "-", "*", "/"}

Letters == {"a"}

Alphabet == Spaces \cup DecimalDigits \cup OtherDigits \cup Operations \cup Letters

Strings == UNION {[1..n -> Alphabet] : n \in 0..MaxLen}

----------------------------------------------------------------------------
\* str.isspace() and str.isdigit() of one character.

IsSpace(c) == c \in Spaces

IsDigit(c) == c \in DecimalDigits \cup OtherDigits

\* int(number): defined on non-empty runs of decimal digits, ValueError otherwise.
IntAccepts(str) == Len(str) > 0 /\ \A i \in 1..Len(str) : str[i] \in DecimalDigits

DigitValue(c) == CASE c = "0" -> 0 [] c = "1" -> 1 [] c = "2" -> 2

RECURSIVE IntOf(_)
IntOf(str) ==
    IF Len(str) = 0 THEN 0
    ELSE 10 * IntOf(SubSeq(str, 1, Len(str) - 1)) + DigitValue(str[Len(str)])

----------------------------------------------------------------------------
\* Token and Token.Type.

Token(type_, value) == [type_ |-> type_, value |-> value]

NoToken == Token("NoneType", None)

OperationTypes == {"PLUS", "MINUS", "MULTIPLY", "DIVIDE"}

from_operation(char) ==
    CASE char = "+" -> "PLUS"
      [] char = "-" -> "MINUS"
      [] char = "*" -> "MULTIPLY"
      [] char = "/" -> "DIVIDE"

----------------------------------------------------------------------------
\* What an evaluation ends with.

NoOutcome == [kind |-> "running"]

ParseError(caret, symbol, char) ==
    [kind |-> "ParseError", caret |-> caret, symbol |-> symbol, char |-> char]

IndexError == [kind |-> "IndexError"]

ValueError == [kind |-> "ValueError"]

ZeroDivisionError == [kind |-> "ZeroDivisionError"]

\* A number: an int n is n/1, a float is the quotient num/den in lowest terms.
Returned(type, num, den) == [kind |-> "returned", type |-> type, num |-> num, den |-> den]

Raise(self, exc) == [self EXCEPT !.pc = "raised", !.outcome = exc]

----------------------------------------------------------------------------
\* The interpreter object, as a record.

Self ==
    [code |-> code, pos |-> pos, current_char |-> current_char,
     current_token |-> current_token, pc |-> pc, caller |-> caller,
     stage |-> stage, number |-> number, left |-> left, op |-> op,
     right |-> right, outcome |-> outcome, tokens |-> tokens]

Assign(self) ==
    /\ code' = self.code
    /\ pos' = self.pos
    /\ current_char' = self.current_char
    /\ current_token' = self.current_token
    /\ pc' = self.pc
    /\ caller' = self.caller
    /\ stage' = self.stage
    /\ number' = self.number
    /\ left' = self.left
    /\ op' = self.op
    /\ right' = self.right
    /\ outcome' = self.outcome
    /\ tokens' = self.tokens

\* A step of the first interpreter object: no other object, and nothing of the
\* __main__ loop, is touched by a method of Interpreter.
Becomes(self) == Assign(self) /\ UNCHANGED <<second, host, printed>>

\* Interpreter.__init__, lines 42-44: the fields set before code[pos] is read.
New(c) ==
    [code |-> c, pos |-> 0, current_char |-> Unset, current_token |-> NoToken,
     pc |-> "init", caller |-> None, stage |-> 0, number |-> <<>>,
     left |-> NoToken, op |-> NoToken, right |-> NoToken,
     outcome |-> NoOutcome, tokens |-> <<>>]

\* No Interpreter object: none was made yet, or the last one is garbage.
Absent == [New(<<>>) EXCEPT !.pc = "absent"]

\* print() has not been called.
NoOutput == [kind |-> "nothing"]

\* Interpreter.__init__, line 45: self.current_char = self.code[self.pos].
InitCurrentChar(self) ==
    IF self.pos + 1 \in 1..Len(self.code)
    THEN [self EXCEPT !.current_char = self.code[self.pos + 1], !.pc = "constructed"]
    ELSE Raise(self, IndexError)

\* A slip in _error: the 0-based index is reported as it is.
ErrorZeroBased(self) ==
    IF self.pos + 1 \in 1..Len(self.code)
    THEN Raise(self, ParseError(self.pos + 3, self.pos, self.code[self.pos + 1]))
    ELSE Raise(self, IndexError)

\* Interpreter._error.
Error(self) ==
    IF self.pos + 1 \in 1..Len(self.code)
    THEN Raise(self, ParseError(self.pos + 3, self.pos + 1, self.code[self.pos + 1]))
    ELSE Raise(self, IndexError)

\* Interpreter._eof.
Eof(self) == self.pos > Len(self.code) - 1

\* A slip in _advance: the pointer moves by two.
AdvanceByTwo(self) ==
    LET moved == [self EXCEPT !.pos = self.pos + 2]
    IN  IF Eof(moved)
        THEN [moved EXCEPT !.current_char = None]
        ELSE [moved EXCEPT !.current_char = moved.code[moved.pos + 1]]

\* A slip in _advance: current_char is read before the pointer moves.
AdvanceStaleChar(self) ==
    LET moved == [self EXCEPT !.pos = self.pos + 1]
    IN  IF Eof(moved)
        THEN [moved EXCEPT !.current_char = None]
        ELSE [moved EXCEPT !.current_char = self.code[self.pos + 1]]

\* Interpreter._advance.
Advance(self) ==
    LET moved == [self EXCEPT !.pos = self.pos + 1]
    IN  IF Eof(moved)
        THEN [moved EXCEPT !.current_char = None]
        ELSE [moved EXCEPT !.current_char = moved.code[moved.pos + 1]]

\* Interpreter._is_operation.
IsOperation(self) == self.current_char \in Operations

\* return of _get_next_token to its caller: line 124 of expr, line 113 of _eat,
\* or a caller that only asks for tokens.
ReturnToken(self, tok) ==
    LET seen == [self EXCEPT !.tokens = Append(self.tokens, tok)]
    IN  CASE self.caller = "expr" ->
               [seen EXCEPT !.current_token = tok, !.pc = "eat"]
          [] self.caller = "_eat" ->
               [seen EXCEPT !.current_token = tok,
                            !.stage = self.stage + 1,
                            !.pc = IF self.stage + 1 = 3 THEN "compute" ELSE "eat"]
          [] OTHER ->
               [seen EXCEPT !.pc = "idle"]

\* A slip in _skip_whitespace: the character after the blank is skipped with it.
SkipWhitespaceStepGreedy(self) ==
    IF self.current_char # None /\ IsSpace(self.current_char)
    THEN Advance(Advance(self))
    ELSE [self EXCEPT !.pc = "lex"]

\* A slip in _skip_whitespace: the loop body does not advance.
SkipWhitespaceStepStuck(self) ==
    IF self.current_char # None /\ IsSpace(self.current_char)
    THEN self
    ELSE [self EXCEPT !.pc = "lex"]

\* Interpreter._skip_whitespace: one test of the loop condition.
SkipWhitespaceStep(self) ==
    IF self.current_char # None /\ IsSpace(self.current_char)
    THEN Advance(self)
    ELSE [self EXCEPT !.pc = "lex"]

\* Interpreter._integer: one test of the loop condition; int(number) at the end.
IntegerStep(self) ==
    IF self.current_char # None /\ IsDigit(self.current_char)
    THEN Advance([self EXCEPT !.number = Append(self.number, self.current_char)])
    ELSE IF IntAccepts(self.number)
         THEN ReturnToken(self, Token("INTEGER", IntOf(self.number)))
         ELSE Raise(self, ValueError)

\* A slip in _get_next_token: at the end of the input it advances before it
\* returns EOF.
GetNextTokenStepAdvancingAtEof(self) ==
    IF self.current_char = None
    THEN ReturnToken(Advance(self), Token("EOF", None))
    ELSE IF IsSpace(self.current_char)
    THEN [self EXCEPT !.pc = "skip"]
    ELSE IF IsDigit(self.current_char)
    THEN [self EXCEPT !.pc = "int", !.number = <<>>]
    ELSE IF IsOperation(self)
    THEN LET operation == self.current_char
         IN  ReturnToken(Advance(self), Token(from_operation(operation), operation))
    ELSE Error(self)

\* Interpreter._get_next_token: one test of the loop condition and the body.
GetNextTokenStep(self) ==
    IF self.current_char = None
    THEN ReturnToken(self, Token("EOF", None))
    ELSE IF IsSpace(self.current_char)
    THEN [self EXCEPT !.pc = "skip"]
    ELSE IF IsDigit(self.current_char)
    THEN [self EXCEPT !.pc = "int", !.number = <<>>]
    ELSE IF IsOperation(self)
    THEN LET operation == self.current_char
         IN  ReturnToken(Advance(self), Token(from_operation(operation), operation))
    ELSE Error(self)

\* A slip in expr: the second _eat takes an INTEGER too.
ExpectedLoose(n) == IF n = 1 THEN OperationTypes \cup {"INTEGER"} ELSE {"INTEGER"}

\* The token types the _eat call after `n` returned ones is given.
Expected(n) == IF n = 1 THEN OperationTypes ELSE {"INTEGER"}

\* expr, lines 127-138: left/op/right = self.current_token, then self._eat(...).
EatStep(self) ==
    LET kept == CASE self.stage = 0 -> [self EXCEPT !.left = self.current_token]
                  [] self.stage = 1 -> [self EXCEPT !.op = self.current_token]
                  [] OTHER -> [self EXCEPT !.right = self.current_token]
    IN  IF self.current_token.type_ \in Expected(self.stage)
        THEN [kept EXCEPT !.pc = "lex", !.caller = "_eat"]
        ELSE Error(kept)

RECURSIVE Gcd(_, _)
Gcd(a, b) == IF b = 0 THEN a ELSE Gcd(b, a % b)

\* operator.add, operator.sub, operator.mul, operator.truediv on two ints.
add(a, b) == Returned("int", a + b, 1)

sub(a, b) == Returned("int", a - b, 1)

mul(a, b) == Returned("int", a * b, 1)

\* A slip in op_to_operator: operator.floordiv in the place of operator.truediv.
floordiv(a, b) ==
    IF b = 0 THEN ZeroDivisionError
    ELSE Returned("int", a \div b, 1)

\* A slip in expr: the operands of the division are swapped.
truedivSwapped(a, b) ==
    IF a = 0 THEN ZeroDivisionError
    ELSE LET g == Gcd(b, a) IN Returned("float", b \div g, a \div g)

truediv(a, b) ==
    IF b = 0 THEN ZeroDivisionError
    ELSE LET g == Gcd(a, b) IN Returned("float", a \div g, b \div g)

\* expr, lines 142-149: op_to_operator[op.type_](left.value, right.value).
Result(self) ==
    LET a == self.left.value
        b == self.right.value
    IN  CASE self.op.type_ = "PLUS" -> add(a, b)
          [] self.op.type_ = "MINUS" -> sub(a, b)
          [] self.op.type_ = "MULTIPLY" -> mul(a, b)
          [] self.op.type_ = "DIVIDE" -> truediv(a, b)

\* A tightened grammar: the token after the second integer has to be EOF.
ComputeStepStrict(self) ==
    IF self.current_token.type_ # "EOF"
    THEN Error(self)
    ELSE IF Result(self).kind = "returned"
    THEN [self EXCEPT !.pc = "done", !.outcome = Result(self)]
    ELSE Raise(self, Result(self))

\* expr, lines 142-150: the result is returned, or the operator's exception escapes.
ComputeStep(self) ==
    IF Result(self).kind = "returned"
    THEN [self EXCEPT !.pc = "done", !.outcome = Result(self)]
    ELSE Raise(self, Result(self))

\* One step of Interpreter(code).expr() from the place `self.pc`.
ExprStep(self) ==
    CASE self.pc = "init" -> InitCurrentChar(self)
      [] self.pc = "constructed" -> [self EXCEPT !.pc = "lex", !.caller = "expr"]
      [] self.pc = "lex" -> GetNextTokenStep(self)
      [] self.pc = "skip" -> SkipWhitespaceStep(self)
      [] self.pc = "int" -> IntegerStep(self)
      [] self.pc = "eat" -> EatStep(self)
      [] self.pc = "compute" -> ComputeStep(self)

\* Interpreter(c).expr(), line 158, run to its end: what it returns or raises.
RECURSIVE Run(_)
Run(self) == IF self.pc \in {"done", "raised"} THEN self ELSE Run(ExprStep(self))

Evaluate(c) == Run(New(c)).outcome

----------------------------------------------------------------------------
\* The actions.

\* The variables hold the interpreter object `self`.
Holds(self) ==
        /\ code = self.code
        /\ pos = self.pos
        /\ current_char = self.current_char
        /\ current_token = self.current_token
        /\ pc = self.pc
        /\ caller = self.caller
        /\ stage = self.stage
        /\ number = self.number
        /\ left = self.left
        /\ op = self.op
        /\ right = self.right
        /\ outcome = self.outcome
        /\ tokens = self.tokens

Init ==
    /\ \E c \in Strings : Holds(New(c))
    /\ second = Absent
    /\ host = "off"
    /\ printed = NoOutput

Construct == pc = "init" /\ Becomes(InitCurrentChar(Self))

ExprBegin == pc = "constructed" /\ Becomes(ExprStep(Self))

GetNextToken == pc = "lex" /\ Becomes(GetNextTokenStep(Self))

SkipWhitespace == pc = "skip" /\ Becomes(SkipWhitespaceStep(Self))

Integer == pc = "int" /\ Becomes(IntegerStep(Self))

Eat == pc = "eat" /\ Becomes(EatStep(Self))

Compute == pc = "compute" /\ Becomes(ComputeStep(Self))

Next ==
    \/ Construct
    \/ ExprBegin
    \/ GetNextToken
    \/ SkipWhitespace
    \/ Integer
    \/ Eat
    \/ Compute

Spec == Init /\ [][Next]_vars

\* One character of every class the code tells apart: whitespace, a decimal
\* digit, a digit int() rejects, an operator, any other character.
ClassAlphabet == {" ", "1", "^2", "+", "a"}

ClassStrings == UNION {[1..n -> ClassAlphabet] : n \in 0..MaxLen}

InitClasses ==
    /\ \E c \in ClassStrings : Holds(New(c))
    /\ second = Absent
    /\ host = "off"
    /\ printed = NoOutput

\* Inputs long enough for a fourth token with characters after it, over a
\* whitespace, a decimal digit, a digit int() rejects and an operator.
LongLen == 6

LongAlphabet == {" ", "1", "^2", "+"}

LongStrings == UNION {[1..n -> LongAlphabet] : n \in 0..LongLen}

InitLong ==
    /\ \E c \in LongStrings : Holds(New(c))
    /\ second = Absent
    /\ host = "off"
    /\ printed = NoOutput

SpecLong == InitLong /\ [][Next]_vars

\* Two evaluations on two Interpreter objects, their steps interleaved in any
\* order, each followed by further evaluations on new objects.
\* The inputs are one for every kind of outcome: a result (with whitespace and
\* a trailing token, and with several digits), ZeroDivisionError, ParseError
\* from the tokenizer and from _eat, IndexError from _error and from
\* __init__, ValueError.
PairStrings ==
    {<<" ", "1", "/", "1">>, <<"1", "+", "2", "-">>, <<"1", "2", "*", "2">>,
     <<"1", "/", "0">>, <<"a">>, <<"/", "1">>, <<"1", "+">>, <<>>, <<"^2">>}

\* A slip in Interpreter: pos kept in one place for all objects, so that a new
\* object starts where the last one stopped.
Reused(last, c) == [New(c) EXCEPT !.pos = last.pos]

\* Interpreter(expression), line 158, where the object `last` was used before:
\* a new object, with nothing of the last one in it.
Fresh(last, c) == New(c)

InitPair ==
    /\ \E c \in PairStrings : Holds(New(c))
    /\ \E c \in PairStrings : second = New(c)
    /\ host = "off"
    /\ printed = NoOutput

\* A step of the second object's evaluation.
SecondStep ==
    /\ second.pc \notin {"done", "raised"}
    /\ second' = ExprStep(second)
    /\ UNCHANGED <<code, pos, current_char, current_token, pc, caller, stage,
                   number, left, op, right, outcome, tokens, host, printed>>

\* The next evaluation, on a new object, where the first one has ended.
Again ==
    /\ pc \in {"done", "raised"}
    /\ \E c \in PairStrings : Becomes(Fresh(Self, c))

\* The next evaluation, on a new object, where the second one has ended.
SecondAgain ==
    /\ second.pc \in {"done", "raised"}
    /\ \E c \in PairStrings : second' = Fresh(second, c)
    /\ UNCHANGED <<code, pos, current_char, current_token, pc, caller, stage,
                   number, left, op, right, outcome, tokens, host, printed>>

NextPair ==
    \/ Next
    \/ SecondStep
    \/ Again
    \/ SecondAgain

SpecPair == InitPair /\ [][NextPair]_vars

\* The __main__ loop, lines 153-163.  input() returns a line, or raises
\* KeyboardInterrupt or, at the end of the input, EOFError.

KeyboardInterrupt == [kind |-> "KeyboardInterrupt"]

EOFError == [kind |-> "EOFError"]

\* print("\nProgram interrupted by user."), line 162.
Interrupted == [kind |-> "Program interrupted by user."]

\* An exception no except clause of the loop matches: the program ends with a
\* traceback.
Traceback(exc) == [kind |-> "Traceback", exc |-> exc.kind]

InitHost ==
    /\ Holds(Absent)
    /\ second = Absent
    /\ host = "prompt"
    /\ printed = NoOutput

\* Lines 156-158: an empty line is skipped, any other is given to a new
\* Interpreter.
Enter(line) ==
    IF Len(line) = 0
    THEN Assign(Absent) /\ host' = "prompt"
    ELSE Assign(Fresh(Self, line)) /\ host' = "evaluating"

\* expression := input(">> ") returns a line.
HostInput ==
    /\ host = "prompt"
    /\ \E line \in Strings : Enter(line)
    /\ printed' = NoOutput
    /\ UNCHANGED second

\* Line 158: print(...) of the value expr returned.
HostPrint ==
    /\ host = "evaluating"
    /\ pc = "done"
    /\ printed' = outcome
    /\ host' = "prompt"
    /\ Assign(Absent)
    /\ UNCHANGED second

\* The except clauses an exception of this kind reaches, lines 159-163.
Handle(exc) ==
    CASE exc.kind = "ParseError" -> [host |-> "prompt", printed |-> exc]
      [] exc.kind = "KeyboardInterrupt" -> [host |-> "exited", printed |-> Interrupted]
      [] OTHER -> [host |-> "crashed", printed |-> Traceback(exc)]

\* expr raised.
HostExcept ==
    /\ host = "evaluating"
    /\ pc = "raised"
    /\ printed' = Handle(outcome).printed
    /\ host' = Handle(outcome).host
    /\ Assign(Absent)
    /\ UNCHANGED second

\* The user interrupts, at the prompt or during the evaluation.
HostInterrupt ==
    /\ host \in {"prompt", "evaluating"}
    /\ printed' = Handle(KeyboardInterrupt).printed
    /\ host' = Handle(KeyboardInterrupt).host
    /\ Assign(Absent)
    /\ UNCHANGED second

\* The input ends while the loop waits at the prompt: input() raises EOFError.
HostEndOfInput ==
    /\ host = "prompt"
    /\ printed' = Handle(EOFError).printed
    /\ host' = Handle(EOFError).host
    /\ Assign(Absent)
    /\ UNCHANGED second

NextHost ==
    \/ HostInput
    \/ Next
    \/ HostPrint
    \/ HostExcept
    \/ HostInterrupt
    \/ HostEndOfInput

SpecHost == InitHost /\ [][NextHost]_vars

\* The evaluation is sequential code that nothing suspends: it takes its next
\* step as long as it has one.
FairSpec == InitClasses /\ [][Next]_vars /\ WF_vars(Next)

\* The tokenizer alone: a caller that constructs the interpreter and then calls
\* _get_next_token again and again.
CallGetNextToken ==
    /\ pc \in {"constructed", "idle"}
    /\ Len(tokens) < MaxCalls
    /\ Becomes([Self EXCEPT !.pc = "lex", !.caller = "caller"])

NextLexer ==
    \/ Construct
    \/ CallGetNextToken
    \/ GetNextToken
    \/ SkipWhitespace
    \/ Integer

SpecLexer == Init /\ [][NextLexer]_vars

----------------------------------------------------------------------------
\* What the properties are stated with: the inputs as the caller writes them.

Finished == pc \in {"done", "raised"}

\* Largest integer an input of MaxLen characters can hold beside an operator
\* and a one-digit operand.
MaxValue == 10 ^ (MaxLen - 2) - 1

DigitChar(d) ==
    CASE d = 0 -> "0" [] d = 1 -> "1" [] d = 2 -> "2" [] d = 3 -> "3" [] d = 4 -> "4"
      [] d = 5 -> "5" [] d = 6 -> "6" [] d = 7 -> "7" [] d = 8 -> "8" [] d = 9 -> "9"

\* f"{n}": the decimal digits of a non-negative integer.
RECURSIVE Str(_)
Str(n) == IF n < 10 THEN <<DigitChar(n)>> ELSE Str(n \div 10) \o <<DigitChar(n % 10)>>

AllIn(str, S) == \A i \in 1..Len(str) : str[i] \in S

\* The outcome is the number num/den.
IsNumber(out, num, den) ==
    /\ out.kind = "returned"
    /\ out.den # 0
    /\ out.num * den = num * out.den

\* apply(o, a, b), as the fraction it is: the outcome is that number.
IsApply(out, o, a, b) ==
    CASE o = "+" -> IsNumber(out, a + b, 1)
      [] o = "-" -> IsNumber(out, a - b, 1)
      [] o = "*" -> IsNumber(out, a * b, 1)
      [] o = "/" -> IsNumber(out, a, b)

\* The input begins with a run of decimal digits, an operator at index k and a
\* run of decimal digits that ends at index m.
BeginsWith(k, m) ==
    /\ k \in 2..Len(code) - 1
    /\ m \in k + 1..Len(code)
    /\ code[k] \in Operations
    /\ AllIn(SubSeq(code, 1, k - 1), DecimalDigits)
    /\ AllIn(SubSeq(code, k + 1, m), DecimalDigits)

\* The two runs are the decimal digits of a and of b, and a op b is defined.
Operands(k, m, a, b) ==
    /\ Str(a) = SubSeq(code, 1, k - 1)
    /\ Str(b) = SubSeq(code, k + 1, m)
    /\ ~(code[k] = "/" /\ b = 0)

\* C1: for all non-negative integers a, b and every operator (b # 0 for /), the
\* input made of the digits of a, the operator and the digits of b evaluates to
\* a+b, a-b, a*b, or the true quotient a/b.
C1_Arithmetic ==
    Finished =>
        \A k \in 1..Len(code) :
            BeginsWith(k, Len(code)) =>
                \A a \in 0..MaxValue :
                    Str(a) = SubSeq(code, 1, k - 1) =>
                        \A b \in 0..MaxValue :
                            Operands(k, Len(code), a, b) =>
                                IsApply(outcome, code[k], a, b)

C1_Witness ==
    /\ pc = "done"
    /\ code = <<"1", "/", "2">>
    /\ outcome = Returned("float", 1, 2)

\* The input without its whitespace characters.
Strip(str) == SelectSeq(str, LAMBDA c : ~IsSpace(c))

\* digits, operator, digits.
WellFormed(str) ==
    \E k \in 2..Len(str) - 1 :
        /\ str[k] \in Operations
        /\ AllIn(SubSeq(str, 1, k - 1), DecimalDigits)
        /\ AllIn(SubSeq(str, k + 1, Len(str)), DecimalDigits)

\* A well-formed input with whitespace before, between and after its three
\* tokens, and none inside an integer.
Padded(str) ==
    /\ WellFormed(Strip(str))
    /\ \A i, j \in 1..Len(str) :
           ~(/\ i + 1 < j
             /\ str[i] \in DecimalDigits
             /\ str[j] \in DecimalDigits
             /\ AllIn(SubSeq(str, i + 1, j - 1), Spaces))

\* C2: whitespace inserted before, between or after the tokens of a well-formed
\* input changes neither the value returned nor success into failure.
C2_WhitespaceInsertion ==
    (Finished /\ Padded(code)) => outcome = Evaluate(Strip(code))

C2_Witness ==
    /\ pc = "done"
    /\ code = <<"1", " ", "+", "2">>
    /\ outcome = Returned("int", 3, 1)

\* C3: when the token stream reaches EOF where the grammar still expects an
\* INTEGER or an operator, a non-empty input fails with ParseError.
C3_EofIsParseError ==
    (/\ pc = "raised"
     /\ Len(code) > 0
     /\ stage < 3
     /\ current_token.type_ = "EOF") => outcome.kind = "ParseError"

\* The character at the tokenizer's position is none it knows.
AtUnknownCharacter ==
    /\ pc = "lex"
    /\ pos < Len(code)
    /\ code[pos + 1] \notin Spaces \cup DecimalDigits \cup OtherDigits \cup Operations

\* C4: when the tokenizer reaches, at 0-based index i of the input, a character
\* c that is no whitespace, digit or operator, evaluation fails with the
\* ParseError "Error parsing code at symbol <i+1>: '<c>'"; "a+1" reports
\* position 1 and character 'a'.
C4_UnknownCharacter ==
    /\ [][AtUnknownCharacter =>
            /\ pc' = "raised"
            /\ outcome'.kind = "ParseError"
            /\ outcome'.symbol = pos + 1
            /\ outcome'.char = code[pos + 1]]_vars
    /\ []((Finished /\ code = <<"a", "+", "1">>) =>
            /\ outcome.kind = "ParseError"
            /\ outcome.symbol = 1
            /\ outcome.char = "a")

C4_Witness ==
    /\ pc = "raised"
    /\ code = <<"1", " ", "a">>
    /\ outcome.kind = "ParseError"
    /\ outcome.symbol = 3
    /\ outcome.char = "a"

\* The 0-based index at which the token the tokenizer has just returned begins:
\* the tokenizer stands right behind it.
TokenStart ==
    IF current_token.type_ = "INTEGER"
    THEN CHOOSE i \in 0..pos - 1 :
             /\ AllIn(SubSeq(code, i + 1, pos), DecimalDigits \cup OtherDigits)
             /\ (i = 0 \/ code[i] \notin DecimalDigits \cup OtherDigits)
    ELSE pos - 1

\* C5: when the parser meets a token of the wrong kind, the ParseError carries
\* the 1-based position and the character of that token in the input.  (Stated
\* for a mismatching token that is not the last thing in the input, where
\* _error does raise a ParseError.)
C5_MismatchPosition ==
    [][(/\ pc = "eat"
        /\ pc' = "raised"
        /\ current_token.type_ # "EOF"
        /\ pos < Len(code)) =>
            /\ outcome'.kind = "ParseError"
            /\ outcome'.symbol = TokenStart + 1
            /\ outcome'.char = code[TokenStart + 1]]_vars

\* The divisor of a padded well-formed input is written with zeros only.
DividesByZero(str) ==
    \E k \in 2..Len(str) - 1 :
        /\ str[k] = "/"
        /\ AllIn(SubSeq(str, k + 1, Len(str)), {"0"})

\* C6: evaluation fails with a division-by-zero error exactly when the input
\* parses as INTEGER / INTEGER and the right integer is 0 (also written "00");
\* the error is no ParseError and is never raised for +, -, * or a non-zero
\* divisor.
C6_DivisionByZero ==
    Finished =>
        /\ outcome.kind = "ZeroDivisionError" <=>
               (stage = 3 /\ op.type_ = "DIVIDE" /\ right.value = 0)
        /\ Padded(code) =>
               (outcome.kind = "ZeroDivisionError" <=> DividesByZero(Strip(code)))

C6_Witness ==
    /\ pc = "raised"
    /\ code = <<"1", "/", "0", "0">>
    /\ outcome.kind = "ZeroDivisionError"

\* C7: for every input string, constructing the interpreter and evaluating ends
\* with a numeric result, a ParseError or a division-by-zero error, and with no
\* failure of another kind.
C7_ThreeOutcomes ==
    Finished => outcome.kind \in {"returned", "ParseError", "ZeroDivisionError"}

\* The remainder of the input behind index m.
Remainder(m) == SubSeq(code, m + 1, Len(code))

RECURSIVE DropSpaces(_)
DropSpaces(str) ==
    IF Len(str) > 0 /\ str[1] \in Spaces THEN DropSpaces(Tail(str)) ELSE str

\* The longest run of digit characters at the head of a string.
RECURSIVE DigitRun(_)
DigitRun(str) ==
    IF Len(str) > 0 /\ str[1] \in DecimalDigits \cup OtherDigits
    THEN <<str[1]>> \o DigitRun(Tail(str))
    ELSE <<>>

\* After optional whitespace the string ends, or goes on with an operator or
\* with a run of digits that int() accepts.
HasFirstToken(str) ==
    LET rest == DropSpaces(str)
    IN  \/ rest = <<>>
        \/ rest[1] \in Operations
        \/ AllIn(DigitRun(rest), DecimalDigits) /\ DigitRun(rest) # <<>>

NoDigitFirst(str) == str = <<>> \/ str[1] \notin DecimalDigits \cup OtherDigits

\* C8, as the specification states it: a well-formed a op b followed by any
\* remainder that does not begin with a digit evaluates to apply(op, a, b).
C8_AnyRemainderIgnored ==
    Finished =>
        \A k, m \in 1..Len(code) :
            (BeginsWith(k, m) /\ NoDigitFirst(Remainder(m))) =>
                \A a \in 0..MaxValue :
                    Str(a) = SubSeq(code, 1, k - 1) =>
                        \A b \in 0..MaxValue :
                            Operands(k, m, a, b) => IsApply(outcome, code[k], a, b)

\* C8, amended: a well-formed a op b followed by a remainder that does not
\* begin with a digit and whose first token the tokenizer can produce
\* evaluates to apply(op, a, b).
C8_TokenRemainderIgnored ==
    Finished =>
        \A k, m \in 1..Len(code) :
            (/\ BeginsWith(k, m)
             /\ NoDigitFirst(Remainder(m))
             /\ HasFirstToken(Remainder(m))) =>
                \A a \in 0..MaxValue :
                    Str(a) = SubSeq(code, 1, k - 1) =>
                        \A b \in 0..MaxValue :
                            Operands(k, m, a, b) => IsApply(outcome, code[k], a, b)

C8_Witness ==
    /\ pc = "done"
    /\ code = <<"1", "+", "2", "-">>
    /\ outcome = Returned("int", 3, 1)
    /\ current_token.type_ = "MINUS"

LastToken == tokens[Len(tokens)]

\* C9: once _get_next_token has returned an EOF token, every later call returns
\* an EOF token (value None) and leaves pos and current_char unchanged.
C9_EofIdempotent ==
    [][(tokens # <<>> /\ LastToken.type_ = "EOF") =>
            /\ pos' = pos
            /\ current_char' = current_char
            /\ LastToken'.type_ = "EOF"
            /\ LastToken'.value = None]_vars

C9_Witness ==
    /\ pc = "idle"
    /\ Len(tokens) >= 3
    /\ tokens[Len(tokens) - 2].type_ = "INTEGER"
    /\ tokens[Len(tokens) - 1].type_ = "EOF"
    /\ tokens[Len(tokens)].type_ = "EOF"

\* C10: in every reachable state 0 <= pos <= len(code); pos starts at 0 and no
\* step ever decreases it.
C10_PositionBounded ==
    /\ pos = 0
    /\ [](0 <= pos /\ pos <= Len(code))
    /\ [][pos' >= pos]_vars

C10_Witness ==
    /\ pc = "done"
    /\ Len(code) = MaxLen
    /\ pos = Len(code)

\* C11: for every finite input the evaluation terminates: every iteration of
\* the loops of _skip_whitespace and _integer advances pos by one or leaves the
\* loop, _skip_whitespace hands back to the loop of _get_next_token only behind
\* a whitespace character it has consumed, and pos, which counts the advances,
\* never exceeds len(code).
C11_Terminates ==
    /\ <>Finished
    /\ [][(pc \in {"skip", "int"} /\ pc' = pc) => pos' = pos + 1]_vars
    /\ [][(pc = "skip" /\ pc' = "lex") => (pos >= 1 /\ code[pos] \in Spaces)]_vars
    /\ [][pos' \in {pos, pos + 1}]_vars
    /\ [](pos <= Len(code))

C11_Witness ==
    /\ pc = "done"
    /\ code = <<" ", "1", "+", "1">>
    /\ pos = Len(code)

\* C12: evaluations are independent: with the steps of two evaluations on
\* separate Interpreter objects interleaved in any order, each ends with the
\* outcome it has when it runs alone, whatever was evaluated before it.
C12_Independent ==
    /\ Finished => outcome = Evaluate(code)
    /\ second.pc \in {"done", "raised"} => second.outcome = Evaluate(second.code)

C12_Witness ==
    /\ pc = "done"
    /\ code = <<" ", "1", "/", "1">>
    /\ outcome = Returned("float", 1, 1)
    /\ second.pc = "raised"
    /\ second.code = <<"1", "/", "0">>
    /\ second.outcome = ZeroDivisionError

\* C13: in the host loop an evaluation failure is never fatal: after a
\* ParseError or a division-by-zero error the loop prints the message and is
\* back at the prompt; it does not end with the exception uncaught.
C13_FailureNotFatal ==
    host = "crashed" => printed.exc \notin {"ParseError", "ZeroDivisionError"}

\* C14: an interrupt or an end-of-input signal at the prompt makes the host
\* loop leave cleanly, with no uncaught exception; an empty input line is
\* skipped without the evaluator being invoked.
C14_CleanExit ==
    /\ [](host = "crashed" => printed.exc \notin {"KeyboardInterrupt", "EOFError"})
    /\ [][(host = "prompt" /\ pc' = "init") => Len(code') > 0]_vars

AnyDigits == DecimalDigits \cup OtherDigits

\* The 0-based index at which the run of digit characters that ends right
\* before index q begins.
RunStart(q) ==
    CHOOSE i \in 0..q :
        /\ AllIn(SubSeq(code, i + 1, q), AnyDigits)
        /\ (i = 0 \/ code[i] \notin AnyDigits)

RECURSIVE StripZeros(_)
StripZeros(str) ==
    IF Len(str) > 1 /\ str[1] = "0" THEN StripZeros(Tail(str)) ELSE str

\* C15: _get_next_token called at a digit returns an INTEGER token whose value
\* is the non-negative decimal value of the maximal run of digits that starts
\* there (leading zeros allowed, the run not empty), and leaves pos just past
\* the run, at a non-digit or at the end of the input.
C15_IntegerToken ==
    [][(pc = "int" /\ pc' # "int") =>
            LET run == SubSeq(code, RunStart(pos) + 1, pos)
            IN  /\ pc' # "raised"
                /\ Len(run) >= 1
                /\ LastToken'.type_ = "INTEGER"
                /\ LastToken'.value >= 0
                /\ Str(LastToken'.value) = StripZeros(run)
                /\ pos' = pos
                /\ (pos' = Len(code) \/ code[pos' + 1] \notin AnyDigits)]_vars

\* The token types the parser accepts after `n` tokens were accepted.
Wanted(n) ==
    CASE n = 0 -> {"INTEGER"}
      [] n = 1 -> {"PLUS", "MINUS", "MULTIPLY", "DIVIDE"}
      [] n = 2 -> {"INTEGER"}

\* C16: a number is returned only if the first three tokens are INTEGER, an
\* operator, INTEGER, in this order; any other token at one of the three
\* parser states ends the evaluation with a failure at that state: no later
\* state is entered and no result is returned.
C16_Grammar ==
    /\ [](pc = "done" =>
            /\ Len(tokens) >= 3
            /\ \A n \in 0..2 : tokens[n + 1].type_ \in Wanted(n))
    /\ [][(pc = "eat" /\ current_token.type_ \notin Wanted(stage)) =>
            /\ pc' = "raised"
            /\ stage' = stage
            /\ outcome'.kind \in {"ParseError", "IndexError"}]_vars
    /\ [][pc = "raised" => (pc' = "raised" /\ outcome' = outcome)]_vars

C16_Witness ==
    /\ pc = "raised"
    /\ code = <<"1", " ", "2", " ">>
    /\ stage = 1
    /\ current_token = Token("INTEGER", 2)
    /\ outcome.kind = "ParseError"

\* C17: on every input, the empty string too, the lexer state is initialised
\* and the first token is pulled; on an input without a non-whitespace
\* character that token is EOF with no value.
C17_FirstTokenEof ==
    AllIn(code, Spaces) =>
        /\ pc # "raised"
        /\ Len(tokens) >= 1 => (tokens[1].type_ = "EOF" /\ tokens[1].value = None)

\* C18: after the third _eat call of expr has returned, current_token is the
\* EOF token.
C18_EofAfterThirdEat ==
    stage = 3 => current_token.type_ = "EOF"

\* C19: after construction on a non-empty input current_char agrees with pos:
\* it is code[pos] when pos < len(code), and None exactly when pos = len(code).
C19_CurrentCharAtPos ==
    (pc # "init" /\ Len(code) > 0) =>
        /\ pos < Len(code) => current_char = code[pos + 1]
        /\ current_char = None <=> pos = Len(code)

C19_Witness ==
    /\ pc = "eat"
    /\ code = <<"1", "2", " ", "+">>
    /\ pos = 2
    /\ current_char = " "

\* C20: an evaluation pulls at most four tokens, and two inputs that are the
\* same up to and including the last character of the token that follows the
\* second integer end with the same outcome: the outcome of an input is that of
\* each of its prefixes that ends with its fourth token.
C20_NothingReadPastFourthToken ==
    /\ Len(tokens) <= 4
    /\ Finished =>
          \A m \in 1..Len(code) :
              LET prefix == Run(New(SubSeq(code, 1, m)))
              IN  ( /\ Len(prefix.tokens) = 4
                    /\ prefix.tokens[4].type_ # "EOF"
                    /\ prefix.pos = m ) => outcome = prefix.outcome

====
